---- MODULE Spec2Model ----
(***************************************************************************)
(* The ASR sidecar of logene-voice-input (python/asr_server.py): the       *)
(* stdin/stdout command loop, the command handlers, the runtime model      *)
(* state, the model cache and the transient session artifacts.             *)
(*                                                                         *)
(* One action of Next is one iteration of the loop of main(): a line is    *)
(* read and handled to completion, every message it writes included.       *)
(* What the code cannot decide (the downloader, the model factories, the   *)
(* inference backends) is a nondeterministic choice among their outcomes.  *)
(***************************************************************************)
EXTENDS Integers, Sequences, FiniteSets, TLC

\* ---------------------------------------------------------------- bounds
\* Number of input lines the host sends before it closes stdin.
MaxLines == 3

\* ------------------------------------------------------- program constants
\* Python's None for a model handle or a tracked path; a live handle or a
\* temporary path is named by the (positive) number of the line that made it.
None == 0

DefaultBackend == "funasr_torch"

\* ------------------------------------------------------------ model cache
\* The file names the code looks for in a cache directory, and one file
\* ("config.yaml") standing for every other file of a model repository.
FileNames == {"model.onnx", "model_quant.onnx", "model_eb.onnx",
              "model_eb_quant.onnx", "config.yaml"}

\* A cache directory: whether it exists, and the files in it.
Absent    == [isdir |-> FALSE, files |-> {}]
EmptyDir  == [isdir |-> TRUE,  files |-> {}]
TorchDir  == [isdir |-> TRUE,  files |-> {"config.yaml"}]
FullDir   == [isdir |-> TRUE,  files |-> FileNames]
\* quantised backbone with a plain embedding: the layout that needs the shim
CompatDir == [isdir |-> TRUE,
              files |-> {"model_quant.onnx", "model_eb.onnx", "config.yaml"}]

\* a fully quantised contextual model
QuantDir  == [isdir |-> TRUE,
              files |-> {"model_quant.onnx", "model_eb_quant.onnx", "config.yaml"}]

ParaformerId == "iic/speech_paraformer-large-vad-punc_asr_nat-zh-cn-16k-common-vocab8404-pytorch"
CtPuncId     == "iic/punc_ct-transformer_zh-cn-common-vocab272727-pytorch"

resolve_model_id(model_name) ==
    CASE model_name = "paraformer-zh" -> ParaformerId
      [] model_name = "ct-punc"       -> CtPuncId
      [] OTHER                        -> model_name

\* ~/.cache/modelscope/hub/models/<model_id>
get_model_cache_path(model_id) == <<"hub", "models", model_id>>

\* Every model name a request may carry, and the cache paths they lead to.
AsrNames  == {"paraformer-zh"}
VadNames  == {"", "fsmn-vad"}
PuncNames == {"", "ct-punc"}
ModelIds  == (AsrNames \cup VadNames \cup PuncNames
               \cup {resolve_model_id(n) : n \in AsrNames \cup PuncNames}) \ {""}
CachePaths == {get_model_cache_path(i) : i \in ModelIds}

DirAt(c, path) == IF path \in DOMAIN c THEN c[path] ELSE Absent

\* os.path.isdir and a file somewhere under it
is_model_cached(c, model_id) ==
    LET d == DirAt(c, get_model_cache_path(model_id))
    IN  d.isdir /\ d.files # {}

\* backend.startswith("funasr_onnx")
OnnxFamily == {"funasr_onnx_contextual", "funasr_onnx_paraformer",
               "funasr_onnx_vad", "funasr_onnx_punc"}
StartsWithFunasrOnnx(backend) == backend \in OnnxFamily

\* A file check that accepts only the quantised embedding for a quantised
\* contextual model.
get_missing_onnx_files_QuantOnly(d, backend, quantize) ==
    LET primary ==
            IF quantize
            THEN IF "model_quant.onnx" \notin d.files
                 THEN <<"model_quant.onnx">> ELSE <<>>
            ELSE IF "model.onnx" \notin d.files
                 THEN <<"model.onnx">> ELSE <<>>
        secondary ==
            IF backend = "funasr_onnx_contextual"
            THEN IF quantize
                 THEN IF "model_eb_quant.onnx" \notin d.files
                      THEN <<"model_eb_quant.onnx|model_eb.onnx">> ELSE <<>>
                 ELSE IF "model_eb.onnx" \notin d.files
                      THEN <<"model_eb.onnx">> ELSE <<>>
            ELSE <<>>
    IN  primary \o secondary

get_missing_onnx_files(d, backend, quantize) ==
    LET primary ==
            IF quantize
            THEN IF "model_quant.onnx" \notin d.files
                 THEN <<"model_quant.onnx">> ELSE <<>>
            ELSE IF "model.onnx" \notin d.files
                 THEN <<"model.onnx">> ELSE <<>>
        secondary ==
            IF backend = "funasr_onnx_contextual"
            THEN IF quantize
                 THEN IF ~("model_eb_quant.onnx" \in d.files
                           \/ "model_eb.onnx" \in d.files)
                      THEN <<"model_eb_quant.onnx|model_eb.onnx">> ELSE <<>>
                 ELSE IF "model_eb.onnx" \notin d.files
                      THEN <<"model_eb.onnx">> ELSE <<>>
            ELSE <<>>
    IN  primary \o secondary

\* TRUE when validate_onnx_files raises
validate_onnx_files_raises(d, backend, quantize) ==
    get_missing_onnx_files(d, backend, quantize) # <<>>

\* The first existing directory among the resolved id and the raw name,
\* else the name itself (no directory).
resolve_model_dir(c, model_name) ==
    LET resolved == resolve_model_id(model_name)
    IN  IF DirAt(c, get_model_cache_path(resolved)).isdir
        THEN DirAt(c, get_model_cache_path(resolved))
        ELSE IF model_name # resolved
                /\ DirAt(c, get_model_cache_path(model_name)).isdir
             THEN DirAt(c, get_model_cache_path(model_name))
             ELSE Absent

\* A list that names the PUNC model ahead of the VAD model.
build_dependencies_PuncFirst(model_name, backend, quantize, vad_model_name, vad_backend, vad_quantize, punc_model_name, punc_backend) ==
    <<[role |-> "ASR", modelName |-> model_name, backend |-> backend,
       quantize |-> quantize]>>
    \o (IF punc_model_name # ""
        THEN <<[role |-> "PUNC", modelName |-> punc_model_name,
                backend |-> punc_backend, quantize |-> FALSE]>>
        ELSE <<>>)
    \o (IF vad_model_name # ""
        THEN <<[role |-> "VAD", modelName |-> vad_model_name,
                backend |-> vad_backend, quantize |-> vad_quantize]>>
        ELSE <<>>)

build_dependencies(model_name, backend, quantize, vad_model_name, vad_backend, vad_quantize, punc_model_name, punc_backend) ==
    <<[role |-> "ASR", modelName |-> model_name, backend |-> backend,
       quantize |-> quantize]>>
    \o (IF vad_model_name # ""
        THEN <<[role |-> "VAD", modelName |-> vad_model_name,
                backend |-> vad_backend, quantize |-> vad_quantize]>>
        ELSE <<>>)
    \o (IF punc_model_name # ""
        THEN <<[role |-> "PUNC", modelName |-> punc_model_name,
                backend |-> punc_backend, quantize |-> FALSE]>>
        ELSE <<>>)

\* An inspection that calls complete whatever is cached.
inspect_dependency_CompleteIfCached(c, dep) ==
    LET d        == resolve_model_dir(c, dep.modelName)
        cached   == d.isdir
        missing  == IF cached /\ StartsWithFunasrOnnx(dep.backend)
                    THEN get_missing_onnx_files(d, dep.backend, dep.quantize)
                    ELSE <<>>
        issue    == IF ~cached THEN "not downloaded"
                    ELSE IF missing # <<>> THEN "missing files" ELSE ""
    IN  [role |-> dep.role, modelName |-> dep.modelName,
         backend |-> dep.backend, quantize |-> dep.quantize,
         cached |-> cached, complete |-> cached,
         missingFiles |-> missing, issue |-> issue]

inspect_dependency(c, dep) ==
    LET resolved == resolve_model_id(dep.modelName)
        d        == resolve_model_dir(c, dep.modelName)
        cached   == d.isdir
        missing  == IF cached /\ StartsWithFunasrOnnx(dep.backend)
                    THEN get_missing_onnx_files(d, dep.backend, dep.quantize)
                    ELSE <<>>
        complete == cached /\ missing = <<>>
        issue    == IF ~cached THEN "not downloaded"
                    ELSE IF missing # <<>> THEN "missing files" ELSE ""
    IN  [role |-> dep.role, modelName |-> dep.modelName,
         backend |-> dep.backend, quantize |-> dep.quantize,
         cached |-> cached, complete |-> complete,
         missingFiles |-> missing, issue |-> issue]

\* The readiness test of one dependency: the directory of the resolved id
\* if it holds a file, else that of the plain name; ONNX files validated.
is_dependency_downloaded(c, dep) ==
    LET resolved == resolve_model_id(dep.modelName)
        valid(id) ==
            ~(StartsWithFunasrOnnx(dep.backend)
              /\ validate_onnx_files_raises(DirAt(c, get_model_cache_path(id)),
                                            dep.backend, dep.quantize))
    IN  IF is_model_cached(c, resolved) THEN valid(resolved)
        ELSE IF dep.modelName # resolved /\ is_model_cached(c, dep.modelName)
        THEN valid(dep.modelName)
        ELSE FALSE

check_dependencies_downloaded(c, deps) ==
    \A i \in DOMAIN deps : is_dependency_downloaded(c, deps[i])

\* --------------------------------------------------------- session state
\* The module globals of asr_server.py and the part of the file system the
\* handlers touch, as one record that the handlers below transform:
\*   asr, vad, punc   asr_model, vad_model, punc_model (None or a handle)
\*   backend, hotwords  asr_backend, asr_hotwords_str
\*   tmp              _hotword_tmp (None or the path of the hotword file)
\*   compat           _compat_model_dirs
\*   files, dirs      the hotword files and compatibility directories on disk
\*   cache            the model cache
\*   msgs             what send_json wrote while the current line is handled
\*   calls            the inference-backend calls made for the current line
EmptyModels ==
    [asr |-> None, vad |-> None, punc |-> None,
     backend |-> DefaultBackend, hotwords |-> ""]

\* A reset that forgets the backend id.
reset_runtime_models_KeepsBackend(s) ==
    [s EXCEPT !.asr = None, !.vad = None, !.punc = None, !.hotwords = ""]

\* A reset that leaves the VAD and PUNC handles in place.
reset_runtime_models_KeepsAux(s) ==
    [s EXCEPT !.asr = None, !.backend = DefaultBackend, !.hotwords = ""]

reset_runtime_models(s) ==
    [s EXCEPT !.asr = None, !.vad = None, !.punc = None,
              !.backend = DefaultBackend, !.hotwords = ""]

SeqRange(q) == {q[i] : i \in DOMAIN q}

cleanup_tmp_files(s) ==
    [s EXCEPT !.files  = IF s.tmp # None /\ s.tmp \in s.files
                         THEN s.files \ {s.tmp} ELSE s.files,
              !.tmp    = None,
              !.dirs   = s.dirs \ SeqRange(s.compat),
              !.compat = <<>>]

\* A message on stdout.  progress is -1 where the message has no such field.
ReadyMsg == [kind |-> "ready", id |-> 0, progress |-> -1, status |-> "",
             ok |-> FALSE]
\* A progress message that carries no request id.
ProgressMsg_NoId(id, p, status) ==
    [kind |-> "progress", id |-> 0, progress |-> p, status |-> status,
     ok |-> FALSE]

ProgressMsg(id, p, status) ==
    [kind |-> "progress", id |-> id, progress |-> p, status |-> status,
     ok |-> FALSE]
TerminalMsg(r) ==
    [kind |-> "terminal", id |-> r.id, progress |-> -1, status |-> "",
     ok |-> r.ok]

send_json(s, obj) == [s EXCEPT !.msgs = Append(@, obj)]

\* hotwords.strip() is empty
Hotwords == {"", " ", "w1 20"}
IsBlank(h) == h \in {"", " "}

\* n names the file mkstemp creates.
write_hotwords_tmp(s, hotwords, n) ==
    LET s1 == IF s.tmp # None /\ s.tmp \in s.files
              THEN [s EXCEPT !.files = @ \ {s.tmp}, !.tmp = None]
              ELSE s
    IN  IF IsBlank(hotwords) THEN s1
        ELSE [s1 EXCEPT !.files = @ \cup {n}, !.tmp = n]

\* ----------------------------------------------------- handler outcomes
\* A terminal response.  code is the value of error.code, "" when the error
\* carries none; payload says which command-specific fields are present.
NoResp ==
    [id |-> 0, ok |-> FALSE, error |-> "", code |-> "", details |-> FALSE,
     payload |-> "none", text |-> "", rawText |-> "", segmentCount |-> 0,
     asrPasses |-> 0, downloaded |-> FALSE, incomplete |-> FALSE,
     dependencies |-> <<>>]
OkResp(id)  == [NoResp EXCEPT !.id = id, !.ok = TRUE]
ErrResp(id, message) == [NoResp EXCEPT !.id = id, !.error = message]

\* A call of a collaborator (the downloader, a model factory or an inference
\* backend): who was called, on which sample ranges, whether the call raised,
\* the boundary pairs it returned (the VAD backend only), and how many
\* messages had been written for the line when it was made.
Call(role, arg, raised, out) ==
    [role |-> role, arg |-> arg, raised |-> raised, out |-> out, after |-> 0]
called_by(s, c) ==
    [s EXCEPT !.calls = Append(@, [c EXCEPT !.after = Len(s.msgs)])]

Return(s, r)  == [s |-> s, raised |-> FALSE, exc |-> "", resp |-> r]
Raise(s, exc) == [s |-> s, raised |-> TRUE, exc |-> exc, resp |-> NoResp]

\* -------------------------------------------------------------- download
\* A progress scaled to 100 instead of the 90 left for the download phase.
Progress90_Percent(i, total) == (i * 100) \div total

\* int((i / total) * 90) with i counted from 0
\* A progress that counts down from 90.
Progress90_Countdown(i, total) == 90 - ((90 * i) \div total)

Progress90(i, total) == (i * 90) \div total

\* What snapshot_download leaves in the cache directory when it returns.
Downloaded == {FullDir}

\* The loop of download_model_with_progress from dependency i (1-based) on:
\* the set of session states it may end in.  Every failure inside the loop
\* body is caught there and only logged to stderr.
RECURSIVE DownloadFrom(_, _, _, _)
DownloadFrom(s, deps, i, msg_id) ==
    IF i > Len(deps) THEN {s}
    ELSE
      LET dep      == deps[i]
          total    == Len(deps)
          base     == Progress90(i - 1, total)
          next     == Progress90(i, total)
          resolved == resolve_model_id(dep.modelName)
          path     == get_model_cache_path(resolved)
          done(t)  == send_json(t, ProgressMsg(msg_id, next, ""))
          started  == send_json(s, ProgressMsg(msg_id, base, "download"))
          \* the except clause of the loop body: log, then the same message
          caught(t) == send_json(t, ProgressMsg(msg_id, next, ""))
          checked(t, d) ==
            IF StartsWithFunasrOnnx(dep.backend)
               /\ validate_onnx_files_raises(d, dep.backend, dep.quantize)
            THEN caught(t) ELSE done(t)
          fetch(raised) ==
            called_by(started, Call("DOWNLOAD", <<>>, raised, <<>>))
          after    ==
            IF is_model_cached(s.cache, resolved)
            THEN {checked(s, DirAt(s.cache, path))}
            ELSE {caught(fetch(TRUE))}      \* snapshot_download raised
                 \cup {checked([fetch(FALSE) EXCEPT !.cache[path] = d], d) :
                         d \in Downloaded}
      IN  UNION {DownloadFrom(t, deps, i + 1, msg_id) : t \in after}

\* The import of the downloader may fail: the only way the function raises.
download_model_with_progress(s, deps, msg_id) ==
    {Raise(s, "ImportError")}
    \cup {Return(t, NoResp) :
            t \in IF Len(deps) = 0
                  THEN {send_json(s, ProgressMsg(msg_id, 90, ""))}
                  ELSE DownloadFrom(s, deps, 1, msg_id)}

\* ------------------------------------------------------------- factories
\* Each returns the set of [s, raised, h]: the session state afterwards,
\* whether it raised, and the handle made (n names what the call creates).
Made(s, h)  == [s |-> s, raised |-> FALSE, h |-> h]
Failed(s)   == [s |-> s, raised |-> TRUE, h |-> None]

\* The set of [s, raised]: the state afterwards, unchanged or with a shim
\* directory made.  The directory is made first, filled by links or copies
\* of the model files, and entered in _compat_model_dirs last; a copy that
\* raises leaves it made and not entered.
adapt_contextual_quant_model_dir(s, d, quantize, n) ==
    IF ~quantize THEN {[s |-> s, raised |-> FALSE]}
    ELSE IF "model_quant.onnx" \in d.files /\ "model_eb_quant.onnx" \in d.files
    THEN {[s |-> s, raised |-> FALSE]}
    ELSE IF ~("model_quant.onnx" \in d.files /\ "model_eb.onnx" \in d.files)
    THEN {[s |-> s, raised |-> FALSE]}
    ELSE {[s |-> [s EXCEPT !.dirs = @ \cup {n}, !.compat = Append(@, n)],
           raised |-> FALSE],
          [s |-> [s EXCEPT !.dirs = @ \cup {n}], raised |-> TRUE]}

\* The attempt of a factory to build the model of a role.
Attempt(s, role, raised) == called_by(s, Call(role, <<>>, raised, <<>>))

create_asr_model(s, model_name, backend, quantize, n) ==
    IF backend = "funasr_onnx_contextual"
    THEN {Failed(Attempt(s, "ASR_FACTORY", TRUE))}
         \cup UNION {IF a.raised
                     THEN {Failed(Attempt(a.s, "ASR_FACTORY", TRUE))}
                     ELSE {Failed(Attempt(a.s, "ASR_FACTORY", TRUE)),
                           Made(Attempt(a.s, "ASR_FACTORY", FALSE), n)} :
                       a \in adapt_contextual_quant_model_dir(
                               s, resolve_model_dir(s.cache, model_name),
                               quantize, n)}
    ELSE {Failed(Attempt(s, "ASR_FACTORY", TRUE)),
          Made(Attempt(s, "ASR_FACTORY", FALSE), n)}

create_vad_model(s, model_name, backend, quantize, n) ==
    IF model_name = "" THEN {Made(s, None)}
    ELSE IF backend = "funasr_onnx_vad"
    THEN {Failed(Attempt(s, "VAD_FACTORY", TRUE)),
          Made(Attempt(s, "VAD_FACTORY", FALSE), n)}
    ELSE {Failed(Attempt(s, "VAD_FACTORY", TRUE))}

create_punc_model(s, model_name, backend, n) ==
    IF model_name = "" THEN {Made(s, None)}
    ELSE IF backend = "funasr_torch_punc"
    THEN {Failed(Attempt(s, "PUNC_FACTORY", TRUE)),
          Made(Attempt(s, "PUNC_FACTORY", FALSE), n)}
    ELSE {Failed(Attempt(s, "PUNC_FACTORY", TRUE))}

\* ---------------------------------------------------------- segmentation
\* Times are in tenths of a millisecond, so that rounding and truncation
\* have something to do; a waveform is its number of samples and a segment
\* is the sample range <<start, end>> it was sliced from.

\* int(x) for x = a / b, b > 0: truncation toward zero
TruncDiv(a, b) == IF a >= 0 THEN a \div b ELSE -((-a) \div b)

\* int(round(t)) for t tenths of a millisecond: nearest, ties to even
RoundMs(t) ==
    LET q == t \div 10
        r == t % 10
    IN  IF r < 5 THEN q
        ELSE IF r > 5 THEN q + 1
        ELSE IF q % 2 = 0 THEN q ELSE q + 1

PairKey(p) == <<RoundMs(p[1]), RoundMs(p[2])>>

\* The dedup loop: a pair is kept unless an earlier pair has its key.
RECURSIVE Dedup(_, _)
Dedup(pairs, seen) ==
    IF pairs = <<>> THEN <<>>
    ELSE IF PairKey(Head(pairs)) \in seen THEN Dedup(Tail(pairs), seen)
    ELSE <<Head(pairs)>> \o Dedup(Tail(pairs), seen \cup {PairKey(Head(pairs))})

PairLeq(p, q) == p[1] < q[1] \/ (p[1] = q[1] /\ p[2] <= q[2])

\* list.sort(key = (start, end)): stable insertion of each pair in turn
RECURSIVE InsertPair(_, _)
InsertPair(p, sorted) ==
    IF sorted = <<>> THEN <<p>>
    ELSE IF PairLeq(Head(sorted), p)
         THEN <<Head(sorted)>> \o InsertPair(p, Tail(sorted))
         ELSE <<p>> \o sorted

RECURSIVE SortPairs(_)
SortPairs(pairs) ==
    IF pairs = <<>> THEN <<>>
    ELSE InsertPair(pairs[Len(pairs)], SortPairs(SubSeq(pairs, 1, Len(pairs) - 1)))

Max(a, b) == IF a >= b THEN a ELSE b
Min(a, b) == IF a <= b THEN a ELSE b

\* A loop that keeps the ranges under the minimum length.
RECURSIVE Segmented_NoFloor(_, _)
Segmented_NoFloor(pairs, total) ==
    IF pairs = <<>> THEN <<>>
    ELSE LET start == Max(0, TruncDiv(Head(pairs)[1] * 16, 10))
             end   == Min(total, TruncDiv(Head(pairs)[2] * 16, 10))
             rest  == Segmented_NoFloor(Tail(pairs), total)
         IN  IF end <= start THEN rest
             ELSE <<<<start, end>>>> \o rest

\* The clamp-and-filter loop over the sorted pairs.
RECURSIVE Segmented(_, _)
Segmented(pairs, total) ==
    IF pairs = <<>> THEN <<>>
    ELSE LET start == Max(0, TruncDiv(Head(pairs)[1] * 16, 10))
             end   == Min(total, TruncDiv(Head(pairs)[2] * 16, 10))
             rest  == Segmented(Tail(pairs), total)
         IN  IF end <= start THEN rest
             ELSE IF end - start < 320 THEN rest
             ELSE <<<<start, end>>>> \o rest

\* What the voice-activity backend may return: lists of (start, end) pairs.
\* Nothing; two speech spans out of order with a near-duplicate of one;
\* a span under the floor with a span past the end; two overlapping spans.
VadOutputs ==
    { <<>>,
      << <<400, 800>>, <<0, 200>>, <<4, 204>> >>,
      << <<0, 100>>, <<900, 1000>> >>,
      << <<100, 400>>, <<0, 200>> >> }

VadCall(total, raised, out) == Call("VAD", <<<<0, total>>>>, raised, out)

\* A segmentation that gives up, with no segment, when the backend raises.
split_segments_by_vad_NoFallback(s, total) ==
    LET whole == <<<<0, total>>>>
    IN  IF s.vad = None THEN {[s |-> s, segments |-> whole]}
        ELSE
          LET called(raised, out) == called_by(s, VadCall(total, raised, out))
              from(out) ==
                IF out = <<>> THEN whole
                ELSE LET segmented ==
                             Segmented(SortPairs(Dedup(out, {})), total)
                     IN  IF segmented = <<>> THEN whole ELSE segmented
          IN  {[s |-> called(TRUE, <<>>), segments |-> <<>>]}
              \cup {[s |-> called(FALSE, out), segments |-> from(out)] :
                      out \in VadOutputs}

\* A segmentation that returns what the filter left, even when it left nothing.
split_segments_by_vad_MayBeEmpty(s, total) ==
    LET whole == <<<<0, total>>>>
    IN  IF s.vad = None THEN {[s |-> s, segments |-> whole]}
        ELSE
          LET called(raised, out) == called_by(s, VadCall(total, raised, out))
              from(out) ==
                IF out = <<>> THEN whole
                ELSE Segmented(SortPairs(Dedup(out, {})), total)
          IN  {[s |-> called(TRUE, <<>>), segments |-> whole]}
              \cup {[s |-> called(FALSE, out), segments |-> from(out)] :
                      out \in VadOutputs}

\* The set of [s, segments]: the backend may raise or return any output.
split_segments_by_vad(s, total) ==
    LET whole == <<<<0, total>>>>
    IN  IF s.vad = None THEN {[s |-> s, segments |-> whole]}
        ELSE
          LET called(raised, out) == called_by(s, VadCall(total, raised, out))
              from(out) ==
                IF out = <<>> THEN whole
                ELSE LET segmented ==
                             Segmented(SortPairs(Dedup(out, {})), total)
                     IN  IF segmented = <<>> THEN whole ELSE segmented
          IN  {[s |-> called(TRUE, <<>>), segments |-> whole]}  \* it raised
              \cup {[s |-> called(FALSE, out), segments |-> from(out)] :
                      out \in VadOutputs}

\* --------------------------------------------------------------- inference
AsrTexts  == {"", " hi "}
PuncTexts == {"hi."}
Strip(text) == IF text = " hi " THEN "hi" ELSE text

\* A recogniser that drops the model when the backend raises.
run_asr_once_DropsModel(s, merged) ==
    IF s.asr = None THEN {[s |-> s, raised |-> FALSE, text |-> ""]}
    ELSE LET called(raised) == called_by(s, Call("ASR", merged, raised, <<>>))
         IN  {[s |-> [called(TRUE) EXCEPT !.asr = None], raised |-> TRUE,
               text |-> ""]}
             \cup {[s |-> called(FALSE), raised |-> FALSE, text |-> x] :
                     x \in AsrTexts}

\* The set of [s, raised, text].
run_asr_once(s, merged) ==
    IF s.asr = None THEN {[s |-> s, raised |-> FALSE, text |-> ""]}
    ELSE LET called(raised) == called_by(s, Call("ASR", merged, raised, <<>>))
         IN  {[s |-> called(TRUE), raised |-> TRUE, text |-> ""]}
             \cup {[s |-> called(FALSE), raised |-> FALSE, text |-> x] :
                     x \in AsrTexts}

\* The set of [s, text]: a failure of the backend is caught and the input
\* text returned.
run_punc(s, text) ==
    IF text = "" \/ Strip(text) = "" THEN {[s |-> s, text |-> ""]}
    ELSE IF s.punc = None THEN {[s |-> s, text |-> text]}
    ELSE LET called(raised) == called_by(s, Call("PUNC", <<>>, raised, <<>>))
         IN  {[s |-> called(TRUE), text |-> text]}
             \cup {[s |-> called(FALSE), text |-> IF x = "" THEN text ELSE x] :
                     x \in PuncTexts}

\* ---------------------------------------------------------------- requests
\* An input line.  kind is "blank", "badjson" (not valid JSON), "nonobject"
\* (valid JSON that is no object) or "object"; for an object the optional
\* fields hold the defaults msg.get supplies when they are absent, and
\* hasModel / wav say whether the required field is there.
\*   wav: "absent", "badb64" (b64decode raises), "odd" (an odd number of
\*   PCM bytes: frombuffer raises) or "ok" with wavLen samples after the
\*   44-byte header.
BaseReq ==
    [kind |-> "object", hasid |-> FALSE, id |-> 0, cmd |-> "",
     hasModel |-> FALSE, modelName |-> "", backend |-> DefaultBackend,
     quantize |-> FALSE, hotwords |-> "", vadModelName |-> "",
     vadBackend |-> "funasr_onnx_vad", vadQuantize |-> TRUE, usePunc |-> TRUE,
     puncModelName |-> "", puncBackend |-> "funasr_torch_punc",
     wav |-> "absent", wavLen |-> 0]

\* msg.get("id", 0)
MsgId(m) == IF m.hasid THEN m.id ELSE 0

\* -------------------------------------------------------------- handlers
\* Each returns the set of outcomes Return(s, resp) / Raise(s, exc) the
\* handler may end in from session state s; n is the number of the line.

\* An init that announces the VAD model only once it is made.
HandleInit_VadUnannounced(s, m, n) ==
    LET msg_id == MsgId(m)
        s1 == cleanup_tmp_files(reset_runtime_models(s))
        deps == build_dependencies(m.modelName, m.backend, m.quantize,
                    m.vadModelName, m.vadBackend, m.vadQuantize,
                    m.puncModelName, m.puncBackend)
        s2 == send_json(s1, ProgressMsg(msg_id, 0, "check"))
        LoadPunc(t) ==
            LET t1 == send_json(t, ProgressMsg(msg_id, 98, "load PUNC"))
            IN  {IF p.raised THEN Raise(p.s, "RuntimeError")
                 ELSE Return([p.s EXCEPT !.punc = p.h], OkResp(msg_id)) :
                   p \in create_punc_model(t1, m.puncModelName, m.puncBackend, n)}
        LoadVad(t) ==
            UNION {IF v.raised THEN {Raise(v.s, "RuntimeError")}
                   ELSE LoadPunc(send_json([v.s EXCEPT !.vad = v.h],
                                           ProgressMsg(msg_id, 96, "load VAD"))) :
                     v \in create_vad_model(t, m.vadModelName,
                                            m.vadBackend, m.vadQuantize, n)}
        LoadAsr(t) ==
            LET t1 == send_json(write_hotwords_tmp(t, m.hotwords, n),
                                ProgressMsg(msg_id, 92, "load ASR"))
            IN  UNION {IF a.raised THEN {Raise(a.s, "RuntimeError")}
                       ELSE LoadVad([a.s EXCEPT !.asr = a.h,
                                                !.backend = m.backend,
                                                !.hotwords = m.hotwords]) :
                         a \in create_asr_model(t1, m.modelName, m.backend,
                                                m.quantize, n)}
    IN  IF ~m.hasModel THEN {Raise(s1, "KeyError")}
        ELSE UNION {IF d.raised THEN {Raise(d.s, d.exc)} ELSE LoadAsr(d.s) :
                      d \in download_model_with_progress(s2, deps, msg_id)}

HandleInit(s, m, n) ==
    LET msg_id == MsgId(m)
        s1 == cleanup_tmp_files(reset_runtime_models(s))
        deps == build_dependencies(m.modelName, m.backend, m.quantize,
                    m.vadModelName, m.vadBackend, m.vadQuantize,
                    m.puncModelName, m.puncBackend)
        s2 == send_json(s1, ProgressMsg(msg_id, 0, "check"))
        LoadPunc(t) ==
            LET t1 == send_json(t, ProgressMsg(msg_id, 98, "load PUNC"))
            IN  {IF p.raised THEN Raise(p.s, "RuntimeError")
                 ELSE Return([p.s EXCEPT !.punc = p.h], OkResp(msg_id)) :
                   p \in create_punc_model(t1, m.puncModelName, m.puncBackend, n)}
        LoadVad(t) ==
            LET t1 == send_json(t, ProgressMsg(msg_id, 96, "load VAD"))
            IN  UNION {IF v.raised THEN {Raise(v.s, "RuntimeError")}
                       ELSE LoadPunc([v.s EXCEPT !.vad = v.h]) :
                         v \in create_vad_model(t1, m.vadModelName,
                                                m.vadBackend, m.vadQuantize, n)}
        LoadAsr(t) ==
            LET t1 == send_json(write_hotwords_tmp(t, m.hotwords, n),
                                ProgressMsg(msg_id, 92, "load ASR"))
            IN  UNION {IF a.raised THEN {Raise(a.s, "RuntimeError")}
                       ELSE LoadVad([a.s EXCEPT !.asr = a.h,
                                                !.backend = m.backend,
                                                !.hotwords = m.hotwords]) :
                         a \in create_asr_model(t1, m.modelName, m.backend,
                                                m.quantize, n)}
    IN  IF ~m.hasModel THEN {Raise(s1, "KeyError")}
        ELSE UNION {IF d.raised THEN {Raise(d.s, d.exc)} ELSE LoadAsr(d.s) :
                      d \in download_model_with_progress(s2, deps, msg_id)}

\* A merge that hands over the first segment alone.
Merged_FirstOnly(segments, total) ==
    IF segments # <<>> THEN <<segments[1]>> ELSE <<<<0, total>>>>

\* np.concatenate of the non-empty segments, as the ranges it is made of
Merged(segments, total) ==
    IF Len(segments) <= 1
    THEN IF segments # <<>> THEN segments ELSE <<<<0, total>>>>
    ELSE LET valid == SelectSeq(segments, LAMBDA g : g[2] - g[1] > 0)
         IN  IF valid # <<>> THEN valid ELSE <<<<0, total>>>>

HandleRecognize(s, m, n) ==
    LET msg_id == MsgId(m)
        Finish(t, segments, raw_text) ==
            {Return(p.s, [OkResp(msg_id) EXCEPT
                            !.payload = "recognize", !.text = p.text,
                            !.rawText = raw_text,
                            !.segmentCount = Len(segments),
                            !.asrPasses = 1]) :
               p \in run_punc(t, raw_text)}
        Recognise(g) ==
            UNION {IF a.raised THEN {Raise(a.s, "RuntimeError")}
                   ELSE Finish(a.s, g.segments, Strip(a.text)) :
                     a \in run_asr_once(g.s, Merged(g.segments, m.wavLen))}
    IN  IF s.asr = None
        THEN {Return(s, ErrResp(msg_id, "recognizer not initialized"))}
        ELSE IF m.wav = "absent" THEN {Raise(s, "KeyError")}
        ELSE IF m.wav = "badb64" THEN {Raise(s, "binascii.Error")}
        ELSE IF m.wav = "odd"    THEN {Raise(s, "ValueError")}
        ELSE UNION {Recognise(g) : g \in split_segments_by_vad(s, m.wavLen)}

\* A check that is refused while no model is loaded.
HandleCheck_NeedsInit(s, m, n) ==
    IF s.asr = None
    THEN {Return(s, ErrResp(MsgId(m), "recognizer not initialized"))}
    ELSE {Return(s, [OkResp(MsgId(m)) EXCEPT !.payload = "check"])}

\* A check that calls the set incomplete when any dependency is cached.
HandleCheck_AnyCached(s, m, n) ==
    LET msg_id == MsgId(m)
        deps == build_dependencies(m.modelName, m.backend, m.quantize,
                    m.vadModelName, m.vadBackend, m.vadQuantize,
                    m.puncModelName, m.puncBackend)
        dependency_status ==
            [i \in DOMAIN deps |-> inspect_dependency(s.cache, deps[i])]
        downloaded == \A i \in DOMAIN dependency_status :
                         dependency_status[i].complete
        asr_cached == \E i \in DOMAIN dependency_status :
                         dependency_status[i].cached
        incomplete == asr_cached /\ ~downloaded
    IN  IF ~m.hasModel THEN {Raise(s, "KeyError")}
        ELSE {Return(s, [OkResp(msg_id) EXCEPT
                           !.payload = "check", !.downloaded = downloaded,
                           !.incomplete = incomplete,
                           !.dependencies = dependency_status])}

HandleCheck(s, m, n) ==
    LET msg_id == MsgId(m)
        deps == build_dependencies(m.modelName, m.backend, m.quantize,
                    m.vadModelName, m.vadBackend, m.vadQuantize,
                    m.puncModelName, m.puncBackend)
        dependency_status ==
            [i \in DOMAIN deps |-> inspect_dependency(s.cache, deps[i])]
        downloaded == \A i \in DOMAIN dependency_status :
                         dependency_status[i].complete
        asr_cached == \E i \in DOMAIN dependency_status :
                         /\ dependency_status[i].role = "ASR"
                         /\ dependency_status[i].cached
        incomplete == asr_cached /\ ~downloaded
    IN  IF ~m.hasModel THEN {Raise(s, "KeyError")}
        ELSE {Return(s, [OkResp(msg_id) EXCEPT
                           !.payload = "check", !.downloaded = downloaded,
                           !.incomplete = incomplete,
                           !.dependencies = dependency_status])}

HandleDispose(s, m, n) ==
    {Return(cleanup_tmp_files(reset_runtime_models(s)), OkResp(MsgId(m)))}

\* A ping that releases the transient artifacts.
HandlePing_Cleans(s, m, n) == {Return(cleanup_tmp_files(s), OkResp(MsgId(m)))}

HandlePing(s, m, n) == {Return(s, OkResp(MsgId(m)))}

HandleUnknown(s, m, n) == {Return(s, ErrResp(MsgId(m), "unknown command"))}

\* msg.get on a value that is no dict raises AttributeError.
handle_message(s, m, n) ==
    IF m.kind # "object" THEN {Raise(s, "AttributeError")}
    ELSE CASE m.cmd = "init"      -> HandleInit(s, m, n)
           [] m.cmd = "recognize" -> HandleRecognize(s, m, n)
           [] m.cmd = "check"     -> HandleCheck(s, m, n)
           [] m.cmd = "dispose"   -> HandleDispose(s, m, n)
           [] m.cmd = "ping"      -> HandlePing(s, m, n)
           [] OTHER               -> HandleUnknown(s, m, n)

\* ------------------------------------------------------------------ state
VARIABLES
    pc,                 \* where main() is: "start", "loop", "done", "crashed"
    msg,                \* main's local msg: the last value json.loads returned
    asr_model, vad_model, punc_model, asr_backend, asr_hotwords_str,
    hotword_tmp,        \* _hotword_tmp
    compat_model_dirs,  \* _compat_model_dirs
    tmp_files,          \* hotword files that exist on disk
    tmp_dirs,           \* compatibility directories that exist on disk
    cache,              \* the model cache: path -> directory
    output,             \* stdout: for each message, the line that caused it
                        \* (0 for the ready message) and its kind
    nlines,             \* lines read from stdin so far
    nonblank,           \* lines read so far that were not blank
    ready,              \* an init has returned ok:true and neither a dispose
                        \* nor a failed init has been handled since
    last,               \* the line read last: its kind, its cmd, the ok and
                        \* the error of its response, and the model state it
                        \* was handled in
    prev,               \* the same for the line read before it
    req,                \* the line read last
    sent,               \* the messages written for the line read last
    resp,               \* the terminal response of the line read last
    calls,              \* the backend calls made for the line read last
    probe,              \* a helper function applied on its own: its name,
                        \* its arguments and what it returned
    stdout_lock,        \* _stdout_lock: Unlocked or the thread that holds it
    tpc,                \* where each thread is inside send_json
    stream,             \* sys.stdout: the pieces written, in order
    nsent               \* the send_json calls each thread has completed

\* What the command loop leaves alone: it applies no helper on its own and
\* is the only thread that writes.
apart == <<probe, stdout_lock, tpc, stream, nsent>>

vars == <<pc, msg, asr_model, vad_model, punc_model, asr_backend,
          asr_hotwords_str, hotword_tmp, compat_model_dirs, tmp_files,
          tmp_dirs, cache, output, nlines, nonblank, ready, last, prev,
          req, sent, resp, calls, probe, stdout_lock, tpc, stream, nsent>>

\* The command loop's own variables.
loop_vars == <<pc, msg, asr_model, vad_model, punc_model, asr_backend,
               asr_hotwords_str, hotword_tmp, compat_model_dirs, tmp_files,
               tmp_dirs, cache, output, nlines, nonblank, ready, last, prev,
               req, sent, resp, calls>>

\* The threads that may call send_json: the command loop and a progress
\* callback of the downloader.
Threads == {"main", "callback"}
Unlocked == "unlocked"
NoProbe == [fn |-> "none"]

\* main's msg before the first successful json.loads: the name is unbound.
Unbound == [bound |-> FALSE, isdict |-> FALSE, hasid |-> FALSE, id |-> 0]
Parsed(m) == [bound |-> TRUE, isdict |-> m.kind = "object",
              hasid |-> m.kind = "object" /\ m.hasid,
              id |-> IF m.kind = "object" /\ m.hasid THEN m.id ELSE 0]

NoLine == [BaseReq EXCEPT !.kind = "none"]
NoEntry == [kind |-> "none", cmd |-> "", ok |-> FALSE, error |-> "",
            before |-> EmptyModels]

Session ==
    [asr |-> asr_model, vad |-> vad_model, punc |-> punc_model,
     backend |-> asr_backend, hotwords |-> asr_hotwords_str,
     tmp |-> hotword_tmp, compat |-> compat_model_dirs,
     files |-> tmp_files, dirs |-> tmp_dirs, cache |-> cache,
     msgs |-> <<>>, calls |-> <<>>]

Models == [asr |-> asr_model, vad |-> vad_model, punc |-> punc_model,
           backend |-> asr_backend, hotwords |-> asr_hotwords_str]

\* The caches the process may find at start: nothing downloaded; or an ASR
\* and a VAD model in place and, of the PUNC model, a directory without files.
AllAbsent  == [p \in CachePaths |-> Absent]
InitCaches ==
    { AllAbsent,
      [p \in CachePaths |->
         CASE p = get_model_cache_path(ParaformerId) -> CompatDir
           [] p = get_model_cache_path("fsmn-vad")   -> FullDir
           [] p = get_model_cache_path(CtPuncId)     -> EmptyDir
           [] OTHER                                  -> Absent] }

\* The process right after its start, in one of the caches of the set.
Boot(caches) ==
    /\ pc = "start"
    /\ msg = Unbound
    /\ asr_model = None /\ vad_model = None /\ punc_model = None
    /\ asr_backend = DefaultBackend
    /\ asr_hotwords_str = ""
    /\ hotword_tmp = None
    /\ compat_model_dirs = <<>>
    /\ tmp_files = {} /\ tmp_dirs = {}
    /\ cache \in caches
    /\ probe = NoProbe
    /\ stdout_lock = Unlocked
    /\ tpc = [t \in Threads |-> "idle"]
    /\ stream = <<>>
    /\ nsent = [t \in Threads |-> 0]
    /\ output = <<>>
    /\ nlines = 0
    /\ nonblank = 0
    /\ ready = FALSE
    /\ last = NoEntry
    /\ prev = NoEntry
    /\ req = NoLine
    /\ sent = <<>>
    /\ resp = NoResp
    /\ calls = <<>>

Init == Boot(InitCaches)

\* ------------------------------------------------------------------- main
\* The except clause of main: the id comes from main's msg, which json.loads
\* has (re)bound only if it returned.
InternalError(m, exc) ==
    [NoResp EXCEPT !.id = IF m.isdict /\ m.hasid THEN m.id ELSE 0,
                   !.error = exc, !.details = TRUE]

\* A loop body that writes the response ahead of what the handler wrote.
main_body_ResponseFirst(s, cur, m, n) ==
    LET parsed == m.kind # "badjson"
        msg1   == IF parsed THEN Parsed(m) ELSE cur
        outs   == IF parsed THEN handle_message(s, m, n)
                  ELSE {Raise(s, "JSONDecodeError")}
    IN  { IF o.raised /\ ~msg1.bound
          THEN [s |-> o.s, msg |-> msg1, crashed |-> TRUE, resp |-> NoResp]
          ELSE LET r == IF o.raised THEN InternalError(msg1, o.exc) ELSE o.resp
               IN  [s |-> [o.s EXCEPT !.msgs = <<TerminalMsg(r)>> \o @],
                    msg |-> msg1, crashed |-> FALSE, resp |-> r]
          : o \in outs }

\* One iteration of the loop body on a non-blank line m, the n-th line: the
\* set of [s, msg, crashed, resp] it may end in.  When json.loads raises,
\* msg keeps its value; evaluating msg in the except clause while it is
\* unbound raises out of the handler and ends the process.
main_body(s, cur, m, n) ==
    LET parsed == m.kind # "badjson"
        msg1   == IF parsed THEN Parsed(m) ELSE cur
        outs   == IF parsed THEN handle_message(s, m, n)
                  ELSE {Raise(s, "JSONDecodeError")}
    IN  { IF o.raised /\ ~msg1.bound
          THEN [s |-> o.s, msg |-> msg1, crashed |-> TRUE, resp |-> NoResp]
          ELSE LET r == IF o.raised THEN InternalError(msg1, o.exc) ELSE o.resp
               IN  [s |-> send_json(o.s, TerminalMsg(r)), msg |-> msg1,
                    crashed |-> FALSE, resp |-> r]
          : o \in outs }

Entry(m, r, before) ==
    [kind |-> m.kind, cmd |-> m.cmd, ok |-> r.ok, error |-> r.error,
     before |-> before]

Tag(msgs, n) == [i \in DOMAIN msgs |-> [line |-> n, kind |-> msgs[i].kind]]

Commit(o, m) ==
    /\ pc' = IF o.crashed THEN "crashed" ELSE "loop"
    /\ msg' = o.msg
    /\ asr_model' = o.s.asr /\ vad_model' = o.s.vad /\ punc_model' = o.s.punc
    /\ asr_backend' = o.s.backend
    /\ asr_hotwords_str' = o.s.hotwords
    /\ hotword_tmp' = o.s.tmp
    /\ compat_model_dirs' = o.s.compat
    /\ tmp_files' = o.s.files /\ tmp_dirs' = o.s.dirs
    /\ cache' = o.s.cache
    /\ output' = output \o Tag(o.s.msgs, nlines + 1)
    /\ nlines' = nlines + 1
    /\ nonblank' = nonblank + 1
    /\ ready' = IF m.kind = "object" /\ m.cmd = "init" THEN o.resp.ok
                ELSE IF m.kind = "object" /\ m.cmd = "dispose" THEN FALSE
                ELSE ready
    /\ prev' = last
    /\ last' = Entry(m, o.resp, Models)
    /\ req' = m
    /\ sent' = o.s.msgs
    /\ resp' = o.resp
    /\ calls' = o.s.calls
    /\ UNCHANGED apart

\* The loop body on the non-blank line m, with everything it writes.
Step(m) == \E o \in main_body(Session, msg, m, nlines + 1) : Commit(o, m)

\* for line in sys.stdin: a line is there to read
CanRead == pc = "loop" /\ nlines < MaxLines

\* A start that announces nothing.
Start_Silent ==
    /\ pc = "start"
    /\ pc' = "loop"
    /\ UNCHANGED <<msg, asr_model, vad_model, punc_model, asr_backend,
                   asr_hotwords_str, hotword_tmp, compat_model_dirs,
                   tmp_files, tmp_dirs, cache, output, nlines, nonblank, ready,
                   prev, last, req, sent, resp, calls>>
    /\ UNCHANGED apart

\* send_json({"ready": True}) before the loop
Start ==
    /\ pc = "start"
    /\ pc' = "loop"
    /\ output' = Append(output, [line |-> 0, kind |-> "ready"])
    /\ UNCHANGED <<msg, asr_model, vad_model, punc_model, asr_backend,
                   asr_hotwords_str, hotword_tmp, compat_model_dirs,
                   tmp_files, tmp_dirs, cache, nlines, nonblank, ready, prev,
                   last, req, sent, resp, calls>>
    /\ UNCHANGED apart

\* a line that is empty after strip(): continue
ReadBlank ==
    /\ CanRead
    /\ nlines' = nlines + 1
    /\ prev' = last
    /\ last' = Entry([BaseReq EXCEPT !.kind = "blank"], NoResp, Models)
    /\ req' = [BaseReq EXCEPT !.kind = "blank"]
    /\ sent' = <<>>
    /\ resp' = NoResp
    /\ calls' = <<>>
    /\ UNCHANGED <<pc, msg, asr_model, vad_model, punc_model, asr_backend,
                   asr_hotwords_str, hotword_tmp, compat_model_dirs,
                   tmp_files, tmp_dirs, cache, output, nonblank, ready>>
    /\ UNCHANGED apart

\* stdin is closed: the for loop ends and main returns
Eof ==
    /\ pc = "loop"
    /\ pc' = "done"
    /\ UNCHANGED <<msg, asr_model, vad_model, punc_model, asr_backend,
                   asr_hotwords_str, hotword_tmp, compat_model_dirs,
                   tmp_files, tmp_dirs, cache, output, nlines, nonblank, ready,
                   prev, last, req, sent, resp, calls>>
    /\ UNCHANGED apart

\* The lines the host may send.
\* The ids the host chooses from; a request may also carry no id.
Ids == {7}
IdOpts == {[hasid |-> FALSE, id |-> 0]}
          \cup {[hasid |-> TRUE, id |-> i] : i \in Ids}
WithId(m, i) == [m EXCEPT !.hasid = i.hasid, !.id = i.id]
Cmd(c) == {WithId([BaseReq EXCEPT !.cmd = c], i) : i \in IdOpts}

\* The model sets a request for init or check may name: an ASR model alone,
\* a contextual ONNX model with a VAD model, an ASR model with a PUNC model.
ModelConfigs ==
    { [BaseReq EXCEPT !.hasModel = TRUE, !.modelName = "paraformer-zh"],
      [BaseReq EXCEPT !.hasModel = TRUE, !.modelName = "paraformer-zh",
                      !.backend = "funasr_onnx_contextual", !.quantize = TRUE,
                      !.vadModelName = "fsmn-vad", !.hotwords = "w1 20"],
      [BaseReq EXCEPT !.hasModel = TRUE, !.modelName = "paraformer-zh",
                      !.puncModelName = "ct-punc", !.hotwords = " "] }
ModelReqs(c) == {WithId([m EXCEPT !.cmd = c], i) : m \in ModelConfigs, i \in IdOpts}
\* Of the init requests that name a PUNC model, the one without an id
\* switches punctuation off (usePunc false).
PuncOff(m) ==
    IF m.puncModelName # "" /\ ~m.hasid THEN [m EXCEPT !.usePunc = FALSE] ELSE m
InitReqs  == Cmd("init") \cup {PuncOff(m) : m \in ModelReqs("init")}
CheckReqs == Cmd("check") \cup ModelReqs("check")
WavLens == {0, 1280}
RecognizeReqs ==
    Cmd("recognize")
    \cup {[r EXCEPT !.wav = w] : r \in Cmd("recognize"), w \in {"badb64", "odd"}}
    \cup {[r EXCEPT !.wav = "ok", !.wavLen = k] :
            r \in Cmd("recognize"), k \in WavLens}

ReadBadJson ==
    /\ CanRead
    /\ Step([BaseReq EXCEPT !.kind = "badjson"])

ReadNonObject ==
    /\ CanRead
    /\ Step([BaseReq EXCEPT !.kind = "nonobject"])

ReadInit ==
    /\ CanRead
    /\ \E m \in InitReqs : Step(m)

ReadRecognize ==
    /\ CanRead
    /\ \E m \in RecognizeReqs : Step(m)

ReadCheck ==
    /\ CanRead
    /\ \E m \in CheckReqs : Step(m)

ReadDispose ==
    /\ CanRead
    /\ \E m \in Cmd("dispose") : Step(m)

ReadPing ==
    /\ CanRead
    /\ \E m \in Cmd("ping") : Step(m)

\* a cmd that is none of the five, or no cmd at all
ReadUnknown ==
    /\ CanRead
    /\ \E m \in Cmd("status") \cup Cmd("") : Step(m)

Next ==
    \/ Start
    \/ ReadBlank
    \/ ReadBadJson
    \/ ReadNonObject
    \/ ReadInit
    \/ ReadRecognize
    \/ ReadCheck
    \/ ReadDispose
    \/ ReadPing
    \/ ReadUnknown
    \/ Eof

Spec == Init /\ [][Next]_vars

\* The loop does not stall: every handler call returns or raises, and the
\* host closes stdin after the lines it sends.
FairSpec == Spec /\ WF_vars(Next)

\* ------------------------------------------------- the cache helpers alone
\* The helpers that read the model cache, applied once each in any cache.
ProbeDirs == {Absent, EmptyDir, TorchDir, FullDir, CompatDir, QuantDir}
AliasDirs == {Absent, EmptyDir, FullDir}
AliasPaths == {get_model_cache_path(n) : n \in {"paraformer-zh", "ct-punc"}}
ProbeCaches ==
    {c \in [CachePaths -> ProbeDirs] : \A p \in AliasPaths : c[p] \in AliasDirs}

ProbeDeps ==
    {[role |-> "ASR", modelName |-> "paraformer-zh", backend |-> b,
      quantize |-> q] :
        b \in {"funasr_torch", "funasr_onnx_contextual", "funasr_onnx_paraformer"},
        q \in BOOLEAN}
    \cup {[role |-> "VAD", modelName |-> "fsmn-vad",
           backend |-> "funasr_onnx_vad", quantize |-> q] : q \in BOOLEAN}
    \cup {[role |-> "PUNC", modelName |-> "ct-punc",
           backend |-> "funasr_torch_punc", quantize |-> FALSE]}

\* The model sets of ModelConfigs and one that names all three roles.
CheckConfigs ==
    {[m EXCEPT !.cmd = "check"] : m \in ModelConfigs}
    \cup {[BaseReq EXCEPT !.cmd = "check", !.hasModel = TRUE,
                          !.modelName = "paraformer-zh",
                          !.vadModelName = "fsmn-vad",
                          !.puncModelName = "ct-punc"]}

InspectDependency ==
    /\ probe = NoProbe
    /\ \E dep \in ProbeDeps :
          probe' = [fn |-> "inspect_dependency", dep |-> dep,
                    status |-> inspect_dependency(cache, dep),
                    downloaded |-> is_dependency_downloaded(cache, dep)]
    /\ UNCHANGED <<loop_vars, stdout_lock, tpc, stream, nsent>>

GetMissingOnnxFiles ==
    /\ probe = NoProbe
    /\ \E p \in CachePaths, b \in OnnxFamily, q \in BOOLEAN :
          probe' = [fn |-> "get_missing_onnx_files", dir |-> DirAt(cache, p),
                    backend |-> b, quantize |-> q,
                    missing |-> get_missing_onnx_files(DirAt(cache, p), b, q)]
    /\ UNCHANGED <<loop_vars, stdout_lock, tpc, stream, nsent>>

\* The check handler and check_dependencies_downloaded on the same request.
CheckDependencies ==
    /\ probe = NoProbe
    /\ \E m \in CheckConfigs : \E o \in HandleCheck(Session, m, 1) :
          probe' = [fn |-> "check", req |-> m, resp |-> o.resp,
                    all_downloaded |->
                       check_dependencies_downloaded(cache,
                          build_dependencies(m.modelName, m.backend, m.quantize,
                             m.vadModelName, m.vadBackend, m.vadQuantize,
                             m.puncModelName, m.puncBackend))]
    /\ UNCHANGED <<loop_vars, stdout_lock, tpc, stream, nsent>>

CacheNext == InspectDependency \/ GetMissingOnnxFiles \/ CheckDependencies

CacheInit == Boot(ProbeCaches)

CacheSpec == CacheInit /\ [][CacheNext]_vars

\* ------------------------------------------------------ hotword strings
\* A string is the sequence of its characters: two letters, a digit, the
\* space and the line feed.
MaxChars == 5
Alphabet == {"a", "b", "2", " ", "\n"}
RawHotwords == {<<>>} \cup UNION {[1..k -> Alphabet] : k \in 1..MaxChars}

IsSpace(c) == c \in {" ", "\n"}

\* str.splitlines(): the pieces between line feeds, none after a final one
RECURSIVE splitlines(_)
splitlines(r) ==
    IF Len(r) = 0 THEN <<>>
    ELSE IF \E k \in 1..Len(r) : r[k] = "\n"
    THEN LET k == CHOOSE k \in 1..Len(r) :
                     r[k] = "\n" /\ \A j \in 1..(k - 1) : r[j] # "\n"
         IN  <<SubSeq(r, 1, k - 1)>> \o splitlines(SubSeq(r, k + 1, Len(r)))
    ELSE <<r>>

\* str.strip().split(): the maximal runs of characters that are no space
RECURSIVE split(_)
split(r) ==
    IF Len(r) = 0 THEN <<>>
    ELSE IF IsSpace(r[1]) THEN split(SubSeq(r, 2, Len(r)))
    ELSE LET e == CHOOSE e \in 1..Len(r) :
                     /\ \A j \in 1..e : ~IsSpace(r[j])
                     /\ e = Len(r) \/ IsSpace(r[e + 1])
         IN  <<SubSeq(r, 1, e)>> \o split(SubSeq(r, e + 1, Len(r)))

\* " ".join(words)
RECURSIVE join(_)
join(words) ==
    IF words = <<>> THEN <<>>
    ELSE IF Len(words) = 1 THEN words[1]
    ELSE words[1] \o <<" ">> \o join(Tail(words))

\* the loop `if word not in seen: seen.add(word); words.append(word)`
RECURSIVE unseen(_, _)
unseen(words, seen) ==
    IF words = <<>> THEN <<>>
    ELSE IF Head(words) \in seen THEN unseen(Tail(words), seen)
    ELSE <<Head(words)>> \o unseen(Tail(words), seen \cup {Head(words)})

\* token.isdigit()
isdigit(token) == Len(token) > 0 /\ \A i \in 1..Len(token) : token[i] = "2"

\* what each line contributes when every token of a line counts unless the
\* second one is a number
RECURSIVE line_tokens(_)
line_tokens(lines) ==
    IF lines = <<>> THEN <<>>
    ELSE LET tokens == split(Head(lines))
         IN  (IF tokens = <<>> THEN <<>>
              ELSE IF Len(tokens) >= 2 /\ isdigit(tokens[2]) THEN <<tokens[1]>>
              ELSE tokens)
             \o line_tokens(Tail(lines))

\* The placeholder that stands for an empty hotword list: the one character
\* U+3002, the ideographic full stop.
Placeholder == <<"U+3002">>

\* A normalisation that takes every token of a line whose second token is
\* no number.
normalize_hotwords_for_onnx_AllTokens(hotwords) ==
    LET words1 == unseen(line_tokens(splitlines(hotwords)), {})
        words2 == IF words1 = <<>> THEN unseen(split(hotwords), {}) ELSE words1
        words3 == IF words2 = <<>> THEN <<Placeholder>> ELSE words2
    IN  join(words3)

\* parts[0] of every line that has parts
RECURSIVE first_parts(_)
first_parts(lines) ==
    IF lines = <<>> THEN <<>>
    ELSE LET parts == split(Head(lines))
         IN  (IF parts = <<>> THEN <<>> ELSE <<parts[1]>>)
             \o first_parts(Tail(lines))

normalize_hotwords_for_onnx(hotwords) ==
    LET words1 == unseen(first_parts(splitlines(hotwords)), {})
        words2 == IF words1 = <<>> THEN unseen(split(hotwords), {}) ELSE words1
        words3 == IF words2 = <<>> THEN <<Placeholder>> ELSE words2
    IN  join(words3)

NormalizeHotwords ==
    /\ probe = NoProbe
    /\ \E raw \in RawHotwords :
          probe' = [fn |-> "normalize_hotwords_for_onnx", raw |-> raw,
                    out |-> normalize_hotwords_for_onnx(raw)]
    /\ UNCHANGED <<loop_vars, stdout_lock, tpc, stream, nsent>>

TextInit == Boot({AllAbsent})
TextNext == NormalizeHotwords
TextSpec == TextInit /\ [][TextNext]_vars

\* ---------------------------------------------------- the output channel
\* send_json, step by step, for the command loop and for a progress callback
\* on another thread.  print() hands the text and the line end to the stream
\* one after the other.
MaxSends == 2

Piece(t, part) == [by |-> t, n |-> nsent[t], part |-> part]

\* line = json.dumps(obj, ensure_ascii=False)
Dumps(t) ==
    /\ tpc[t] = "idle"
    /\ nsent[t] < MaxSends
    /\ tpc' = [tpc EXCEPT ![t] = "dumped"]
    /\ UNCHANGED <<loop_vars, probe, stdout_lock, stream, nsent>>

\* An entry to the block that does not wait for the lock.
Acquire_NoLock(t) ==
    /\ tpc[t] = "dumped"
    /\ stdout_lock' = t
    /\ tpc' = [tpc EXCEPT ![t] = "locked"]
    /\ UNCHANGED <<loop_vars, probe, stream, nsent>>

\* with _stdout_lock: entry
Acquire(t) ==
    /\ tpc[t] = "dumped"
    /\ stdout_lock = Unlocked
    /\ stdout_lock' = t
    /\ tpc' = [tpc EXCEPT ![t] = "locked"]
    /\ UNCHANGED <<loop_vars, probe, stream, nsent>>

\* print(line, ...): the text
WriteLine(t) ==
    /\ tpc[t] = "locked"
    /\ stream' = Append(stream, Piece(t, "line"))
    /\ tpc' = [tpc EXCEPT ![t] = "written"]
    /\ UNCHANGED <<loop_vars, probe, stdout_lock, nsent>>

\* print(line, flush=True): the line end, flushed
WriteEnd(t) ==
    /\ tpc[t] = "written"
    /\ stream' = Append(stream, Piece(t, "end"))
    /\ tpc' = [tpc EXCEPT ![t] = "flushed"]
    /\ UNCHANGED <<loop_vars, probe, stdout_lock, nsent>>

\* with _stdout_lock: exit
Release(t) ==
    /\ tpc[t] = "flushed"
    /\ stdout_lock' = Unlocked
    /\ tpc' = [tpc EXCEPT ![t] = "idle"]
    /\ nsent' = [nsent EXCEPT ![t] = @ + 1]
    /\ UNCHANGED <<loop_vars, probe, stream>>

LockInit == Boot({AllAbsent})
LockNext ==
    \E t \in Threads :
       \/ Dumps(t)
       \/ Acquire(t)
       \/ WriteLine(t)
       \/ WriteEnd(t)
       \/ Release(t)
LockSpec == LockInit /\ [][LockNext]_vars

\* ------------------------------------------------- the dependency list
\* build_dependencies on its own, on the arguments init and check may pass:
\* any model name (the empty one too), backend and flag for each role.
DepArgs ==
    [model_name : {"", "paraformer-zh", ParaformerId},
     backend : {DefaultBackend, "funasr_onnx_contextual", "funasr_onnx_paraformer"},
     quantize : BOOLEAN,
     vad_model_name : VadNames, vad_backend : {"funasr_onnx_vad"},
     vad_quantize : BOOLEAN,
     punc_model_name : PuncNames,
     punc_backend : {"funasr_torch_punc", "funasr_onnx_punc"}]

BuildDependencies ==
    /\ probe = NoProbe
    /\ \E a \in DepArgs :
          probe' = [fn |-> "build_dependencies", args |-> a,
                    deps |-> build_dependencies(
                                a.model_name, a.backend, a.quantize,
                                a.vad_model_name, a.vad_backend, a.vad_quantize,
                                a.punc_model_name, a.punc_backend)]
    /\ UNCHANGED <<loop_vars, stdout_lock, tpc, stream, nsent>>

DepsInit == Boot({AllAbsent})
DepsNext == BuildDependencies
DepsSpec == DepsInit /\ [][DepsNext]_vars

\* ------------------------------------------------------ boundary pairs
\* The dedup, sort and clamp-and-filter steps of split_segments_by_vad on
\* their own, on any list of up to MaxPairs pairs: times before the start,
\* at it, just after it, at and just past 20 ms, and past the end.
MaxPairs == 2
PairTimes == {-100, 0, 4, 200, 204, 1000}
Totals == {0, 320, 1280}
PairLists == {<<>>} \cup UNION {[1..k -> PairTimes \X PairTimes] : k \in 1..MaxPairs}

SegmentPairs ==
    /\ probe = NoProbe
    /\ \E pairs \in PairLists, total \in Totals :
          probe' = [fn |-> "split_segments_by_vad", pairs |-> pairs,
                    total |-> total,
                    segmented |-> Segmented(SortPairs(Dedup(pairs, {})), total)]
    /\ UNCHANGED <<loop_vars, stdout_lock, tpc, stream, nsent>>

SegInit == Boot({AllAbsent})
SegNext == SegmentPairs
SegSpec == SegInit /\ [][SegNext]_vars

\* ------------------------------------------------------------- properties
IsCmd(r, c) == r.kind = "object" /\ r.cmd = c
Terminals == {i \in DOMAIN output : output[i].kind = "terminal"}
OfLine(n) == {i \in DOMAIN output : output[i].line = n}

\* C1: every non-blank line read has exactly one terminal response on the
\* output and a blank line has no message at all, so the terminal responses
\* written are as many as the non-blank lines handled.
C1_OneTerminalPerLine ==
    /\ Cardinality(Terminals) = nonblank
    /\ nlines > 0 =>
         IF req.kind = "blank" THEN OfLine(nlines) = {}
         ELSE Cardinality(OfLine(nlines) \cap Terminals) = 1

\* C2: no single line ends the process: after any non-blank line, whatever
\* it is and also when it is the first one, a response has been written and
\* the loop goes on.
C2_NoLineEndsTheProcess ==
    /\ pc # "crashed"
    /\ (nlines > 0 /\ req.kind # "blank") =>
         (sent # <<>> /\ sent[Len(sent)].kind = "terminal")

\* C3: a line that is not valid JSON is answered with a failure whose id is
\* 0, whatever was handled before it.
C3_ParseErrorIdZero ==
    (req.kind = "badjson" /\ pc # "crashed") => (~resp.ok /\ resp.id = 0)

\* C4: a recognize handled while no init has succeeded since the start, the
\* last dispose or the last failed init is refused and calls no backend.
C4_RecognizeNeedsInit ==
    (IsCmd(req, "recognize") /\ ~ready) => (~resp.ok /\ calls = <<>>)

\* C5: after an init that answered ok:false the runtime model state is the
\* empty one: no handle, the default backend id, no hotwords.
C5_InitAllOrNothing ==
    (IsCmd(req, "init") /\ ~resp.ok) => Models = EmptyModels

\* C6: a dispose answers ok:true and leaves the runtime model state at its
\* initial empty value, from any state; so does a dispose that follows a
\* dispose, which also finds that state already empty.
C6_DisposeResets ==
    /\ IsCmd(req, "dispose") =>
         (resp.ok /\ resp.id = MsgId(req) /\ Models = EmptyModels)
    /\ (IsCmd(req, "dispose") /\ IsCmd(prev, "dispose")) =>
         (prev.ok /\ last.before = EmptyModels)

\* dispose, then dispose again, the first one in a state with a model loaded
C6_Witness ==
    /\ IsCmd(req, "dispose") /\ IsCmd(prev, "dispose")
    /\ prev.before.asr # None
    /\ resp.ok

\* C7: a check that carries modelName answers ok:true in any state (it is
\* never refused as not initialised) and changes neither the runtime model
\* state nor the tracked transient artifacts nor the model cache.
C7_CheckPureRead ==
    [][ (IsCmd(req', "check") /\ req'.hasModel) =>
          /\ resp'.ok /\ resp'.payload = "check"
          /\ UNCHANGED <<asr_model, vad_model, punc_model, asr_backend,
                         asr_hotwords_str, hotword_tmp, compat_model_dirs,
                         tmp_files, tmp_dirs, cache>> ]_vars

\* a check answered before any init, as the first line
C7_Witness ==
    /\ nlines = 1 /\ IsCmd(req, "check") /\ req.hasModel
    /\ resp.ok /\ asr_model = None /\ ~ready

\* C8: a recognize, whether it succeeds or fails, leaves the handles, the
\* backend id and the hotwords as they were.
C8_RecognizeReadsOnly ==
    [][ IsCmd(req', "recognize") =>
          UNCHANGED <<asr_model, vad_model, punc_model, asr_backend,
                      asr_hotwords_str>> ]_vars

\* a recognize whose ASR backend raised, then a recognize that succeeds on
\* the same loaded models
C8_Witness ==
    /\ IsCmd(prev, "recognize") /\ ~prev.ok /\ prev.error = "RuntimeError"
    /\ IsCmd(req, "recognize") /\ resp.ok
    /\ asr_model # None /\ Models = prev.before
    /\ \E i \in DOMAIN calls : calls[i].role = "ASR"

\* C9: a ping answers {id, ok:true} in any state and changes neither the
\* runtime model state nor the tracked transient artifacts.
C9_PingNoEffect ==
    [][ IsCmd(req', "ping") =>
          /\ resp'.ok /\ resp'.id = MsgId(req') /\ resp'.payload = "none"
          /\ Len(sent') = 1
          /\ UNCHANGED <<asr_model, vad_model, punc_model, asr_backend,
                         asr_hotwords_str, hotword_tmp, compat_model_dirs,
                         tmp_files, tmp_dirs>> ]_vars

\* a ping answered while models are loaded and a hotword file is tracked
C9_Witness ==
    /\ IsCmd(req, "ping") /\ resp.ok
    /\ ready /\ asr_model # None /\ hotword_tmp # None

\* C10: the output is in receipt order: no message of a line is written
\* after a message of a later line, and the terminal response of a line is
\* the last message written for it.
C10_OutputOrder ==
    \A i \in 1..(Len(output) - 1) :
       /\ output[i].line <= output[i + 1].line
       /\ output[i].kind = "terminal" => output[i].line < output[i + 1].line

\* two requests answered, the first with progress messages before its
\* response, the second after it
C10_Witness ==
    \E i, j, k \in DOMAIN output :
       /\ i < j /\ j < k
       /\ output[i].kind = "progress" /\ output[i].line = 1
       /\ output[j].kind = "terminal" /\ output[j].line = 1
       /\ output[k].line = 2

\* C11: every message written for a line that parsed as a JSON object, the
\* progress messages and the terminal response alike, carries the id of that
\* request, or 0 when the request has none.
C11_IdEchoed ==
    (nlines > 0 /\ req.kind = "object") =>
       \A i \in DOMAIN sent : sent[i].id = (IF req.hasid THEN req.id ELSE 0)

\* an init with an id, handled after another request, that wrote progress
\* messages of the download and of the load phase before its response
C11_Witness ==
    /\ nlines >= 2 /\ prev.kind = "object"
    /\ IsCmd(req, "init") /\ req.hasid /\ req.id # 0 /\ resp.ok
    /\ \E i, j \in DOMAIN sent :
          /\ sent[i].kind = "progress" /\ sent[i].status = "download"
          /\ sent[j].kind = "progress" /\ sent[j].status = "load ASR"
    /\ sent[Len(sent)].kind = "terminal"

\* C12: the ready message is written once, before any line is read, and it
\* is the first message of the output; no later message is a ready message.
C12_ReadyOnceFirst ==
    /\ pc = "start" => (output = <<>> /\ nlines = 0)
    /\ pc # "start" =>
         /\ output # <<>>
         /\ output[1].kind = "ready"
         /\ \A i \in DOMAIN output : i > 1 => output[i].kind # "ready"

\* the process has answered every line the host sent and has ended
C12_Witness ==
    /\ pc = "done" /\ nlines = MaxLines /\ nonblank = MaxLines
    /\ Len(output) > MaxLines

\* C13: once stdin is closed the loop ends normally, every non-blank line it
\* received having got its terminal response.
C13_TerminatesNormally ==
    <>(pc = "done" /\ Cardinality(Terminals) = nonblank)

\* The calls made to one collaborator for the line read last.
CallsOf(role) == {i \in DOMAIN calls : calls[i].role = role}
VadRaised == \E i \in CallsOf("VAD") : calls[i].raised
\* a recognize with a decodable payload of k samples, handled with an ASR
\* model loaded
Recognizing == IsCmd(req, "recognize") /\ req.wav = "ok" /\ last.before.asr # None
Whole == <<<<0, req.wavLen>>>>

\* C14 as stated: when the voice-activity backend raises on a non-empty
\* waveform, the request answers ok:true, with the ASR backend called on the
\* whole waveform as one segment.
C14_VadFailureStillOk ==
    (Recognizing /\ req.wavLen > 0 /\ VadRaised) =>
       /\ resp.ok /\ resp.segmentCount = 1
       /\ \E i \in CallsOf("ASR") : calls[i].arg = Whole

\* C14, amended: when the voice-activity backend raises on a non-empty
\* waveform, the ASR backend is called once, on the whole waveform; the
\* request answers ok:true with one segment unless the ASR backend itself
\* raises, and then the error reported is that of the ASR backend.
C14_VadFailureRecovered ==
    (Recognizing /\ req.wavLen > 0 /\ VadRaised) =>
       /\ Cardinality(CallsOf("ASR")) = 1
       /\ \A i \in CallsOf("ASR") :
             /\ calls[i].arg = Whole
             /\ ~calls[i].raised => (resp.ok /\ resp.segmentCount = 1)
             /\ calls[i].raised <=> ~resp.ok

\* the voice-activity backend raised and the request was still answered ok
C14_Witness ==
    /\ Recognizing /\ req.wavLen > 0 /\ VadRaised
    /\ resp.ok /\ resp.segmentCount = 1 /\ resp.rawText # ""

\* C15: a recognize whose decoded waveform is empty, handled with a model
\* loaded, answers ok:true with empty texts, no segment and no ASR pass, and
\* calls no backend.
C15_EmptyWaveform ==
    (Recognizing /\ req.wavLen = 0) =>
       /\ resp.ok /\ resp.text = "" /\ resp.rawText = ""
       /\ resp.segmentCount = 0 /\ resp.asrPasses = 0
       /\ calls = <<>>

\* Every dependency of request m is reported complete in cache c: what makes
\* a check with the parameters of m answer downloaded:true.
ReportedComplete(c, m) ==
    LET deps == build_dependencies(m.modelName, m.backend, m.quantize,
                    m.vadModelName, m.vadBackend, m.vadQuantize,
                    m.puncModelName, m.puncBackend)
    IN  \A i \in DOMAIN deps : inspect_dependency(c, deps[i]).complete

\* C16: an init whose dependencies are all reported complete in the cache it
\* finds does not call the downloader and writes no download-status progress
\* message, and it answers ok:true unless a model factory (or the import of
\* the downloader module) raises.
C16_CachedInitNoDownload ==
    [][ (IsCmd(req', "init") /\ req'.hasModel /\ ReportedComplete(cache, req')) =>
          /\ \A i \in DOMAIN calls' : calls'[i].role # "DOWNLOAD"
          /\ \A i \in DOMAIN sent' : sent'[i].status # "download"
          /\ resp'.ok \/ resp'.error \in {"RuntimeError", "ImportError"}
      ]_vars

\* C17: an init during which the downloader raised is aborted: it answers
\* ok:false and no model is materialized afterwards.
C17_DownloadFailureAborts ==
    (IsCmd(req, "init") /\ \E i \in CallsOf("DOWNLOAD") : calls[i].raised) =>
       (~resp.ok /\ Models = EmptyModels)

KnownCmds == {"init", "recognize", "check", "dispose", "ping"}

\* C18: a request whose cmd is none of the five commands, or is absent, is
\* answered {id, ok:false} with the error code UNKNOWN_COMMAND, and the
\* runtime model state is what it was.
C18_UnknownCommand ==
    (req.kind = "object" /\ req.cmd \notin KnownCmds) =>
       /\ ~resp.ok /\ resp.id = MsgId(req)
       /\ resp.code = "UNKNOWN_COMMAND"
       /\ Models = last.before

\* The segments a recognize passed on: with two segments or more the ASR
\* backend is called on their concatenation, range by range.
Disjoint(segments) ==
    \A j, k \in DOMAIN segments :
       j < k => /\ segments[j][2] <= segments[k][1]
                /\ segments[j][1] < segments[k][1]

\* C19: whatever pairs the voice-activity backend returned, the segments have
\* sample ranges that do not overlap and start positions that strictly
\* increase in output order.
C19_SegmentsDisjoint ==
    Recognizing => \A i \in CallsOf("ASR") : Disjoint(calls[i].arg)

\* The voice-activity backend returned pairs that the clamp and the floor of
\* 320 samples all dropped.
AllDropped ==
    \E i \in CallsOf("VAD") :
       /\ ~calls[i].raised /\ calls[i].out # <<>>
       /\ Segmented(SortPairs(Dedup(calls[i].out, {})), req.wavLen) = <<>>

\* C20: for a non-empty waveform the segmentation never yields an empty
\* list: the ASR backend is given at least one non-empty range and an ok
\* response counts at least one segment; when every pair was dropped the one
\* segment is the whole waveform.
C20_SegmentsNeverEmpty ==
    (Recognizing /\ req.wavLen > 0) =>
       /\ resp.ok => resp.segmentCount >= 1
       /\ \A i \in CallsOf("ASR") :
             /\ calls[i].arg # <<>>
             /\ resp.ok => resp.segmentCount = Len(calls[i].arg)
             /\ \A j \in DOMAIN calls[i].arg :
                   calls[i].arg[j][1] < calls[i].arg[j][2]
             /\ AllDropped => (calls[i].arg = Whole /\
                                 (resp.ok => resp.segmentCount = 1))

\* a recognize answered ok on the whole waveform after every pair of the
\* voice-activity backend was dropped
C20_Witness ==
    /\ Recognizing /\ req.wavLen > 0 /\ AllDropped
    /\ resp.ok /\ resp.segmentCount = 1

FactoryRoles == {"ASR_FACTORY", "VAD_FACTORY", "PUNC_FACTORY"}
Rank(role) == CASE role = "ASR_FACTORY" -> 1 [] role = "VAD_FACTORY" -> 2
                [] role = "PUNC_FACTORY" -> 3
LoadStatus(role) == CASE role = "ASR_FACTORY" -> "load ASR"
                      [] role = "VAD_FACTORY" -> "load VAD"
                      [] role = "PUNC_FACTORY" -> "load PUNC"
Attempts == {i \in DOMAIN calls : calls[i].role \in FactoryRoles}

C27_PuncSkippedWhenOff ==
    (IsCmd(req, "init") /\ req.hasModel /\ ~req.usePunc) =>
       /\ \A i \in Attempts : calls[i].role # "PUNC_FACTORY"
       /\ punc_model = None

RoleCode(role) == CASE role = "ASR_FACTORY" -> "ASR_MODEL_INIT_FAILED"
                    [] role = "VAD_FACTORY" -> "VAD_MODEL_INIT_FAILED"
                    [] role = "PUNC_FACTORY" -> "PUNC_MODEL_INIT_FAILED"

\* C28: an init during which the factory of a role raised answers ok:false
\* with the failure code of that role.
C28_RoleFailureCode ==
    IsCmd(req, "init") =>
       \A i \in Attempts :
          calls[i].raised => (~resp.ok /\ resp.code = RoleCode(calls[i].role))

\* The progress messages of the acquisition phase: announcements of a fetch
\* (status "download") and completions (no status).
IsDone(x) == x.kind = "progress" /\ x.status = ""
IsFetch(x) == x.kind = "progress" /\ x.status = "download"
DoneBefore(k) == Cardinality({j \in DOMAIN sent : j < k /\ IsDone(sent[j])})
NDeps(m) == 1 + (IF m.vadModelName # "" THEN 1 ELSE 0)
              + (IF m.puncModelName # "" THEN 1 ELSE 0)

\* C29: the dependencies are acquired one after the other: the i-th of n
\* (from 0) is done with progress floor(90*(i+1)/n), fetched or found cached;
\* a fetch is announced with floor(90*i/n) right before the downloader is
\* called, and the next message is that dependency's completion.
C29_AcquisitionProgress ==
    (IsCmd(req, "init") /\ req.hasModel /\ resp.error # "ImportError") =>
       LET n == NDeps(req)
       IN  /\ DoneBefore(Len(sent) + 1) = n
           /\ \A k \in DOMAIN sent :
                 /\ IsDone(sent[k]) =>
                       sent[k].progress = (90 * (DoneBefore(k) + 1)) \div n
                 /\ IsFetch(sent[k]) =>
                       /\ sent[k].progress = (90 * DoneBefore(k)) \div n
                       /\ \E i \in CallsOf("DOWNLOAD") : calls[i].after = k
                       /\ IsDone(sent[k + 1])
           /\ \A i, j \in CallsOf("DOWNLOAD") :
                 /\ IsFetch(sent[calls[i].after])
                 /\ i < j => calls[i].after < calls[j].after

\* an init with two dependencies, the first found cached and the second
\* fetched
C29_Witness ==
    /\ IsCmd(req, "init") /\ NDeps(req) = 2 /\ resp.ok
    /\ Cardinality(CallsOf("DOWNLOAD")) = 1
    /\ \E j, k \in DOMAIN sent :
          /\ j < k /\ IsDone(sent[j]) /\ sent[j].progress = 45
          /\ IsFetch(sent[k]) /\ sent[k].progress = 45
          /\ IsDone(sent[k + 1]) /\ sent[k + 1].progress = 90

\* A cache directory exists for the model name, under its resolved id or
\* under the name itself.
DirExists(model_name) ==
    \E id \in {resolve_model_id(model_name), model_name} :
       DirAt(cache, get_model_cache_path(id)).isdir

\* C21: a Dependency Status is complete only if cached; its issue is empty
\* exactly when it is complete: "not downloaded" when no cache directory
\* exists, otherwise the missing files, of which there is at least one.
C21_StatusConsistent ==
    probe.fn = "inspect_dependency" =>
       LET st == probe.status
       IN  /\ st.complete => st.cached
           /\ st.issue # "" <=> ~st.complete
           /\ st.cached <=> DirExists(probe.dep.modelName)
           /\ ~st.cached => (st.issue = "not downloaded" /\ st.missingFiles = <<>>)
           /\ (st.cached /\ ~st.complete) =>
                 (st.issue = "missing files" /\ st.missingFiles # <<>>)

\* a dependency whose directory exists and lacks a required file
C21_Witness ==
    /\ probe.fn = "inspect_dependency"
    /\ probe.status.cached /\ ~probe.status.complete
    /\ probe.status.missingFiles # <<>>

HasQuantEb == "model_eb_quant.onnx" \in probe.dir.files
HasPlainEb == "model_eb.onnx" \in probe.dir.files
SecondaryMissing ==
    \E i \in DOMAIN probe.missing :
       probe.missing[i] = "model_eb_quant.onnx|model_eb.onnx"
ContextualQuant ==
    /\ probe.fn = "get_missing_onnx_files"
    /\ probe.backend = "funasr_onnx_contextual" /\ probe.quantize

\* C22 as stated: for the quantised contextual backend the secondary
\* artifact is satisfied exactly when one of the two embedding files exists
\* and not both.
C22_ExactlyOneEmbedding ==
    ContextualQuant => (~SecondaryMissing <=> (HasQuantEb # HasPlainEb))

\* C22, amended: the secondary artifact is satisfied exactly when at least
\* one of the two embedding files exists; it is reported missing only when
\* neither does.
C22_EitherEmbedding ==
    ContextualQuant => (~SecondaryMissing <=> (HasQuantEb \/ HasPlainEb))

\* a directory with the plain embedding only, accepted for the quantised model
C22_Witness ==
    ContextualQuant /\ HasPlainEb /\ ~HasQuantEb /\ probe.missing = <<>>

\* C23: in a check response incomplete is true exactly when the ASR model's
\* cache directory exists and downloaded is false; the two flags are never
\* both true, and without an ASR directory incomplete is false.
C23_IncompleteFlag ==
    probe.fn = "check" =>
       /\ probe.resp.incomplete <=>
             (DirExists(probe.req.modelName) /\ ~probe.resp.downloaded)
       /\ ~(probe.resp.downloaded /\ probe.resp.incomplete)
       /\ ~DirExists(probe.req.modelName) => ~probe.resp.incomplete

\* no ASR directory, a VAD directory that lacks its file: not incomplete
C23_Witness ==
    /\ probe.fn = "check" /\ ~DirExists(probe.req.modelName)
    /\ \E i \in DOMAIN probe.resp.dependencies :
          /\ probe.resp.dependencies[i].role = "VAD"
          /\ probe.resp.dependencies[i].cached
          /\ probe.resp.dependencies[i].missingFiles # <<>>
    /\ ~probe.resp.incomplete /\ ~probe.resp.downloaded

\* C30: check_dependencies_downloaded is true of a dependency list exactly
\* when inspection reports every dependency of it complete.
C30_ReadinessAgrees ==
    probe.fn = "check" => (probe.all_downloaded <=> probe.resp.downloaded)

\* The first token of a line starts at p: a character that is no space,
\* with nothing but spaces before it on its line.
StartsLine(r, p) ==
    /\ ~IsSpace(r[p])
    /\ \A q \in 1..(p - 1) :
          (\A k \in q..(p - 1) : r[k] # "\n") => r[q] = " "
TokenAt(r, p) ==
    SubSeq(r, p, CHOOSE e \in p..Len(r) :
                    /\ \A k \in p..e : ~IsSpace(r[k])
                    /\ e = Len(r) \/ IsSpace(r[e + 1]))
\* the first tokens that no earlier line starts with
FirstSeen(r) ==
    {p \in 1..Len(r) :
       /\ StartsLine(r, p)
       /\ \A q \in 1..(p - 1) : StartsLine(r, q) => TokenAt(r, q) # TokenAt(r, p)}
RECURSIVE Spelled(_, _)
Spelled(r, at) ==
    IF at = {} THEN <<>>
    ELSE LET p == CHOOSE p \in at : \A q \in at : p <= q
         IN  TokenAt(r, p)
             \o (IF at = {p} THEN <<>> ELSE <<" ">> \o Spelled(r, at \ {p}))

\* C24: the hotwords derived from a raw string are the first token of each
\* non-blank line, later duplicates dropped, in order of first occurrence,
\* and no other token of a line; a string without any token gives the
\* placeholder.
C24_FirstTokenPerLine ==
    probe.fn = "normalize_hotwords_for_onnx" =>
       probe.out = (IF FirstSeen(probe.raw) = {} THEN Placeholder
                    ELSE Spelled(probe.raw, FirstSeen(probe.raw)))

\* "b a", then "b" again on a second line: one hotword, b
C24_Witness ==
    /\ probe.fn = "normalize_hotwords_for_onnx"
    /\ probe.raw = <<"b", " ", "a", "\n", "b">>
    /\ probe.out = <<"b">>

InsideWrite == {t \in Threads : tpc[t] \in {"locked", "written", "flushed"}}
\* every text on the stream is followed at once by its own line end, or is
\* the last piece there and its writer has not yet written the line end
WholeLines ==
    \A i \in 1..Len(stream) :
       IF stream[i].part = "line"
       THEN IF i < Len(stream)
            THEN stream[i + 1] = [stream[i] EXCEPT !.part = "end"]
            ELSE tpc[stream[i].by] = "written"
       ELSE i > 1 /\ stream[i - 1] = [stream[i] EXCEPT !.part = "line"]

\* C25: when the command loop and a callback on another thread both call
\* send_json, at most one of them is inside the write at any instant, and
\* every message is on the output as one complete line, with no part of
\* another message inside it.
C25_WritesExclusive ==
    /\ Cardinality(InsideWrite) <= 1
    /\ WholeLines

\* the callback waits for the lock while the command loop is between the
\* text and the line end of its second message, after one of the callback's
C25_Witness ==
    /\ tpc["main"] = "written"
    /\ tpc["callback"] = "dumped"
    /\ nsent["main"] = 1
    /\ nsent["callback"] = 1
    /\ stdout_lock = "main"

RolesOf(deps) == [i \in DOMAIN deps |-> deps[i].role]
RoleAt(deps, role) == {i \in DOMAIN deps : deps[i].role = role}

\* C31: the dependency list has the ASR dependency first, a VAD entry exactly
\* when vadModelName is not empty and a PUNC entry exactly when puncModelName
\* is not empty, in the order ASR, VAD, PUNC, and no role twice.
C31_DependencyList ==
    probe.fn = "build_dependencies" =>
       LET deps == probe.deps
           a    == probe.args
       IN  /\ Len(deps) >= 1 /\ deps[1].role = "ASR"
           /\ \A i \in DOMAIN deps : deps[i].role \in {"ASR", "VAD", "PUNC"}
           /\ (RoleAt(deps, "VAD") # {}) <=> (a.vad_model_name # "")
           /\ (RoleAt(deps, "PUNC") # {}) <=> (a.punc_model_name # "")
           /\ \A r \in {"ASR", "VAD", "PUNC"} : Cardinality(RoleAt(deps, r)) <= 1
           /\ \A i, j \in DOMAIN deps :
                 (deps[i].role = "VAD" /\ deps[j].role = "PUNC") => i < j
           /\ deps[1].modelName = a.model_name
           /\ \A i \in RoleAt(deps, "VAD") : deps[i].modelName = a.vad_model_name
           /\ \A i \in RoleAt(deps, "PUNC") : deps[i].modelName = a.punc_model_name

\* all three roles named, for an ASR model whose name is empty
C31_Witness ==
    /\ probe.fn = "build_dependencies"
    /\ probe.args.model_name = ""
    /\ probe.args.vad_model_name # "" /\ probe.args.punc_model_name # ""
    /\ RolesOf(probe.deps) = <<"ASR", "VAD", "PUNC">>

\* 16 samples a millisecond, for a time in tenths of a millisecond that is
\* not negative, and the range that is left of a pair inside the waveform
SamplesAt(t) == (16 * t) \div 10
ClampedStart(p) == IF p[1] <= 0 THEN 0 ELSE SamplesAt(p[1])
ClampedEnd(p, total) ==
    IF p[2] <= 0 THEN 0
    ELSE IF SamplesAt(p[2]) >= total THEN total ELSE SamplesAt(p[2])
LongEnough(p, total) == ClampedEnd(p, total) - ClampedStart(p) >= 320

\* C32: every segment derived from a boundary pair is a range [start, end)
\* with 0 <= start < end <= waveform length and at least 320 samples, start
\* and end being 16 times the pair's milliseconds clamped to the waveform;
\* a pair whose clamped range is empty or shorter gives no segment.
C32_SegmentBounds ==
    probe.fn = "split_segments_by_vad" =>
       LET pairs == probe.pairs
           total == probe.total
           segs  == probe.segmented
       IN  /\ \A i \in DOMAIN segs :
                 /\ 0 <= segs[i][1] /\ segs[i][1] < segs[i][2]
                 /\ segs[i][2] <= total
                 /\ segs[i][2] - segs[i][1] >= 320
                 /\ \E k \in DOMAIN pairs :
                       /\ LongEnough(pairs[k], total)
                       /\ segs[i] = <<ClampedStart(pairs[k]),
                                      ClampedEnd(pairs[k], total)>>
           /\ Len(segs) <= Cardinality({k \in DOMAIN pairs :
                                           LongEnough(pairs[k], total)})

\* a pair that reaches past both ends of the waveform gives the whole of
\* it, and a pair of 314 samples gives nothing
C32_Witness ==
    /\ probe.fn = "split_segments_by_vad"
    /\ probe.pairs = << <<4, 200>>, <<-100, 1000>> >>
    /\ probe.total = 1280
    /\ probe.segmented = << <<0, 1280>> >>

\* the ranges the ASR backend was called on, call by call
AsrArgs == {calls[i].arg : i \in CallsOf("ASR")}
\* the pairs the voice-activity backend returned, if it was called
VadPairs == UNION {SeqRange(calls[i].out) : i \in CallsOf("VAD")}

\* C33: a recognize calls the ASR backend exactly once, never once per
\* segment: on the one segment when segmentation gave one, and otherwise on
\* the concatenation of all the segments, none of them empty, in their sorted
\* order; its response reports a single pass.
C33_SinglePass ==
    Recognizing =>
       /\ Cardinality(CallsOf("ASR")) = 1
       /\ \A i \in CallsOf("ASR") :
             LET a == calls[i].arg
             IN  /\ Len(a) >= 1
                 /\ \A j \in DOMAIN a, k \in DOMAIN a :
                       j < k => a[j][1] <= a[k][1]
                 /\ Len(a) = 1 =>
                       (a = Whole
                        \/ \E p \in VadPairs :
                              a[1] = <<ClampedStart(p), ClampedEnd(p, req.wavLen)>>)
                 /\ Len(a) > 1 =>
                       \A j \in DOMAIN a :
                          /\ a[j][2] > a[j][1]
                          /\ \E p \in VadPairs :
                                a[j] = <<ClampedStart(p), ClampedEnd(p, req.wavLen)>>
                 /\ resp.ok => (resp.asrPasses = 1 /\ resp.segmentCount = Len(a))

\* two speech spans, handed to the backend as one signal in one call
C33_Witness ==
    /\ Recognizing /\ resp.ok
    /\ resp.segmentCount = 2 /\ resp.asrPasses = 1
    /\ AsrArgs = {<< <<0, 320>>, <<640, 1280>> >>}

ProgressAt == {i \in DOMAIN sent : sent[i].kind = "progress"}
Loading(i) == sent[i].status \in {"load ASR", "load VAD", "load PUNC"}

\* C34: within one init the progress values written never decrease, each is
\* an integer from 0 to 100, and the values of the loading phase (92, 96,
\* 98) are above every value of the acquisition phase, which are at most 90.
C34_ProgressMonotone ==
    IsCmd(req, "init") =>
       /\ \A i \in ProgressAt : sent[i].progress \in 0..100
       /\ \A i \in ProgressAt, j \in ProgressAt :
             i < j => sent[i].progress <= sent[j].progress
       /\ \A i \in ProgressAt :
             IF Loading(i) THEN sent[i].progress \in {92, 96, 98}
             ELSE sent[i].progress <= 90
       /\ \A i \in ProgressAt, j \in ProgressAt :
             (Loading(j) /\ ~Loading(i)) => (i < j /\ sent[i].progress < sent[j].progress)

\* an init of two models that fetched the second one and loaded both
C34_Witness ==
    /\ IsCmd(req, "init") /\ resp.ok
    /\ \E i \in ProgressAt, j \in ProgressAt, k \in ProgressAt :
          /\ i < j /\ j < k
          /\ sent[i].status = "download" /\ sent[i].progress = 45
          /\ sent[j].progress = 90
          /\ sent[k].progress = 98

\* the handles present; a handle is the number of the line whose init made it
Handles == {asr_model, vad_model, punc_model} \ {None}

\* C36: in every state a VAD or a PUNC handle is present only with an ASR
\* handle, and all the handles present were made by the same init, the most
\* recent one: an init leaves no handle but its own, and no other request
\* makes one.
C36_OneGeneration ==
    /\ [](/\ (vad_model # None \/ punc_model # None) => asr_model # None
          /\ Cardinality(Handles) <= 1)
    /\ [][IF IsCmd(req', "init") /\ nlines' = nlines + 1
          THEN Handles' \subseteq {nlines'}
          ELSE Handles' \subseteq Handles]_vars

\* an init that loaded an ASR and a VAD model right after an init that had
\* loaded its own
C36_Witness ==
    /\ IsCmd(req, "init") /\ resp.ok
    /\ IsCmd(prev, "init") /\ prev.ok
    /\ last.before.asr = nlines - 1
    /\ asr_model = nlines /\ vad_model = nlines

\* C35: the transient artifacts of a session never leak over any sequence of
\* init and dispose requests: a hotword file exists only while it is the one
\* tracked, every compatibility directory that exists is tracked, after a
\* dispose nothing is tracked and nothing is left, and after an init what is
\* tracked is that init's own, the hotword file only for hotwords that are
\* not blank.
C35_NoArtifactLeak ==
    /\ tmp_files \subseteq ({hotword_tmp} \ {None})
    /\ hotword_tmp # None => hotword_tmp \in tmp_files
    /\ tmp_dirs \subseteq SeqRange(compat_model_dirs)
    /\ IsCmd(req, "dispose") =>
          /\ hotword_tmp = None /\ compat_model_dirs = <<>>
          /\ tmp_files = {} /\ tmp_dirs = {}
    /\ IsCmd(req, "init") =>
          /\ hotword_tmp # None => (hotword_tmp = nlines /\ ~IsBlank(req.hotwords))
          /\ SeqRange(compat_model_dirs) \subseteq {nlines}

====
